---- MODULE Spec2Model ----
(***************************************************************************)
(* CenterNet_Pro_Max: the detection decoder (CenterNetDecoder) and the     *)
(* bilinear initialisation of the deconvolution head (DeconvLayer).        *)
(*                                                                         *)
(* Tensors are functions from 0-based index tuples to integers.  Scores,   *)
(* wh and weights are integers; coordinates that the code computes with    *)
(* halves (x + 0.5, w / 2) are stored in units of 1/2, so that every       *)
(* value of the model is an exact integer.                                 *)
(***************************************************************************)
EXTENDS Integers, Sequences, FiniteSets, TLC

\* ------------------------------------------------------------- bounds
MaxCells == 4      \* batch*channel*height*width of an enumerated map
MaxK == 2          \* largest K of an enumerated call
MaxScore == 2      \* enumerated scores are at most MaxScore
MaxNmsCells == 5   \* channel*height*width of a map given to pseudo_nms alone
MaxPool == 3       \* largest pool_size given to pseudo_nms
MaxPlanes == 3     \* largest out_planes of a DeconvLayer
MaxKernel == 4     \* largest deconv_kernel of a DeconvLayer
MaxCoord == 2      \* largest coordinate (in halves) of a centre or a box
MaxSize == 2       \* largest img_info size, width or height
MaxBoxes == 2      \* most boxes given to transform_boxes

\* pool_size=3, the default of pseudo_nms, which decode relies on
DefaultPoolSize == 3

VARIABLES
    pc,            \* position in the call being executed
    call,          \* which entry point was called
    shape,         \* <<batch, channel, height, width>> of fmap
    fmap,          \* decode: the feature map (rebound by pseudo_nms)
    wh,            \* decode: width/height tensor
    reg,           \* decode: centre offsets in units of 1/2, or None
    cat_spec_wh,   \* decode: class-specific wh
    K,             \* top-k value
    scores,        \* topk_score: its argument
    st1,           \* topk_score: per-channel top-k (topk_scores, topk_inds, topk_ys, topk_xs)
    top,           \* topk_score: its return value
    det,           \* decode: its return value
    pool_size,     \* pseudo_nms: its argument
    nms1,          \* pseudo_nms(fmap, pool_size)
    nms2,          \* pseudo_nms(pseudo_nms(fmap, pool_size), pool_size)
    planes,        \* DeconvLayer: out_planes
    ksz,           \* DeconvLayer: deconv_kernel
    weight,        \* DeconvLayer: up_sample.weight, in units of 1 / (2f)^2
    init_f,        \* _deconv_init: f
    init_c,        \* _deconv_init: c, first 2f times the centre, then the channel copied to
    init_i,        \* _deconv_init: i
    init_j,        \* _deconv_init: j
    img_info,      \* transform_boxes: centre, size, width, height
    boxes,         \* boxes of the original image
    net_boxes,     \* the same boxes in network-output space
    target_boxes   \* transform_boxes: its return value

decodeVars == <<shape, fmap, wh, reg, cat_spec_wh, K, scores, st1, top, det>>
nmsVars == <<pool_size, nms1, nms2>>
deconvVars == <<planes, ksz, weight, init_f, init_c, init_i, init_j>>
affineVars == <<img_info, boxes, net_boxes, target_boxes>>
vars == <<pc, call, decodeVars, nmsVars, deconvVars, affineVars>>

None == [none |-> TRUE]

\* ------------------------------------------------------------- tensors
Batch(s) == s[1]
Channel(s) == s[2]
Height(s) == s[3]
Width(s) == s[4]

Idx2(n1, n2) == (0 .. n1 - 1) \X (0 .. n2 - 1)
Idx3(n1, n2, n3) == (0 .. n1 - 1) \X (0 .. n2 - 1) \X (0 .. n3 - 1)
Idx4(s) == (0 .. s[1] - 1) \X (0 .. s[2] - 1) \X (0 .. s[3] - 1) \X (0 .. s[4] - 1)

SetMax(S) == CHOOSE m \in S : \A x \in S : x <= m

\* tensor.reshape(batch, channel, -1): row-major flattening of the two
\* spatial dimensions
Flatten3(t, s) ==
    [i \in Idx3(Batch(s), Channel(s), Height(s) * Width(s)) |->
        t[<<i[1], i[2], i[3] \div Width(s), i[3] % Width(s)>>]]

\* ------------------------------------------------------------- pseudo_nms
PoolWindow(o, pool, pad, n) == {o - pad + k : k \in 0 .. pool - 1} \cap (0 .. n - 1)

PoolOutDim(n, pool, pad) == n + 2 * pad - pool + 1

\* max_pool2d with the padding counted as cells of value 0
max_pool2d_zero_padded(t, s, pool, pad) ==
    LET os == <<Batch(s), Channel(s), PoolOutDim(Height(s), pool, pad),
                PoolOutDim(Width(s), pool, pad)>>
        cell(b, c, y, x) ==
            IF y \in 0 .. Height(s) - 1 /\ x \in 0 .. Width(s) - 1
            THEN t[<<b, c, y, x>>] ELSE 0
    IN  [i \in Idx4(os) |->
            SetMax({cell(i[1], i[2], i[3] - pad + dy, i[4] - pad + dx) :
                      dy \in 0 .. pool - 1, dx \in 0 .. pool - 1})]

\* F.max_pool2d(t, pool, stride=1, padding=pad): the padding is implicit
\* negative infinity, so a window's maximum is taken over the cells of the
\* window that lie inside the map.
max_pool2d(t, s, pool, pad) ==
    LET os == <<Batch(s), Channel(s), PoolOutDim(Height(s), pool, pad),
                PoolOutDim(Width(s), pool, pad)>>
    IN  [i \in Idx4(os) |->
            SetMax({t[<<i[1], i[2], y, x>>] :
                      y \in PoolWindow(i[3], pool, pad, Height(s)),
                      x \in PoolWindow(i[4], pool, pad, Width(s))})]

\* torch broadcasting of two sizes of one dimension
Broadcastable(a, b) == a = b \/ a = 1 \/ b = 1
BIdx(k, n) == IF n = 1 THEN 0 ELSE k

\* pseudo_nms with the mask inverted: fmap * (1 - keep)
pseudo_nms_inverted_mask(t, s, pool) ==
    LET pad == (pool - 1) \div 2
        oh == PoolOutDim(Height(s), pool, pad)
        ow == PoolOutDim(Width(s), pool, pad)
    IN  IF oh < 1 \/ ow < 1 \/ ~Broadcastable(oh, Height(s))
           \/ ~Broadcastable(ow, Width(s))
        THEN [err |-> TRUE, out |-> <<>>]
        ELSE LET fmap_max == max_pool2d(t, s, pool, pad)
                 keep == [i \in Idx4(s) |->
                            IF fmap_max[<<i[1], i[2], BIdx(i[3], oh), BIdx(i[4], ow)>>] = t[i]
                            THEN 1 ELSE 0]
             IN  [err |-> FALSE, out |-> [i \in Idx4(s) |-> t[i] * (1 - keep[i])]]

\* pseudo_nms(fmap, pool_size): [err |-> TRUE] when torch raises (an empty
\* pooled map, or fmap_max and fmap of sizes that do not broadcast)
pseudo_nms(t, s, pool) ==
    LET pad == (pool - 1) \div 2
        oh == PoolOutDim(Height(s), pool, pad)
        ow == PoolOutDim(Width(s), pool, pad)
    IN  IF oh < 1 \/ ow < 1 \/ ~Broadcastable(oh, Height(s))
           \/ ~Broadcastable(ow, Width(s))
        THEN [err |-> TRUE, out |-> <<>>]
        ELSE LET fmap_max == max_pool2d(t, s, pool, pad)
                 keep == [i \in Idx4(s) |->
                            IF fmap_max[<<i[1], i[2], BIdx(i[3], oh), BIdx(i[4], ow)>>] = t[i]
                            THEN 1 ELSE 0]
             IN  [err |-> FALSE, out |-> [i \in Idx4(s) |-> t[i] * keep[i]]]

\* ------------------------------------------------------------- torch.topk
\* torch.topk(v, k) along the last dimension, sorted: the largest remaining
\* entry is taken k times.  Which of several equal entries comes first is
\* not specified by torch: every order is an outcome.
ArgMax(v, rem) == {i \in rem : \A j \in rem : v[j] <= v[i]}

RECURSIVE TopkOrders(_, _, _)
TopkOrders(v, rem, k) ==
    IF k = 0 THEN {<<>>}
    ELSE UNION {{<<i>> \o rest : rest \in TopkOrders(v, rem \ {i}, k - 1)} :
                  i \in ArgMax(v, rem)}

\* every way to pick one element of opts[d] for each d in D
RECURSIVE Choices(_, _)
Choices(opts, D) ==
    IF D = {} THEN {<<>>}
    ELSE LET d == CHOOSE x \in D : TRUE
         IN  {(d :> o) @@ f : o \in opts[d], f \in Choices(opts, D \ {d})}

\* gather_feature(fmap.view(batch, -1, 1), index): out[b, k] = fmap[b, index[b, k]]
gather_feature(t, index) ==
    [i \in DOMAIN index |-> t[<<i[1], index[i]>>]]

\* gather_feature(fmap, index, use_transform=True): fmap (N, C, H, W) is
\* viewed as (N, C, H*W) and permuted to (N, H*W, C); out[b, k, c] =
\* fmap[b, c, index[b, k]]
gather_feature_transform(t, s, index, k) ==
    LET flat == Flatten3(t, s)
    IN  [i \in Idx3(Batch(s), k, Channel(s)) |->
            flat[<<i[1], i[3], index[<<i[1], i[2]>>]>>]]

\* ------------------------------------------------------------- topk_score
\* lines 135-140: per-channel top-k, row and column of each flat index
Stage1Rows(s) == Idx2(Batch(s), Channel(s))

Stage1Options(sc, s, k) ==
    LET flat == Flatten3(sc, s)
        n == Height(s) * Width(s)
    IN  [r \in Stage1Rows(s) |->
            TopkOrders([j \in 0 .. n - 1 |-> flat[<<r[1], r[2], j>>]], 0 .. n - 1, k)]

\* the row taken by dividing by the height
TopkYs_ByHeight(ind, s) == ind \div Height(s)

TopkYs(ind, s) == ind \div Width(s)
TopkXs(ind, s) == ind % Width(s)

Stage1Result(sc, s, k, sel) ==
    LET flat == Flatten3(sc, s)
        D == Idx3(Batch(s), Channel(s), k)
        raw == [i \in D |-> sel[<<i[1], i[2]>>][i[3] + 1]]
        inds == [i \in D |-> raw[i] % (Height(s) * Width(s))]
    IN  [topk_scores |-> [i \in D |-> flat[<<i[1], i[2], raw[i]>>]],
         topk_inds |-> inds,
         topk_ys |-> [i \in D |-> TopkYs(inds[i], s)],
         topk_xs |-> [i \in D |-> TopkXs(inds[i], s)]]

\* tensor.reshape(batch, -1) of a (batch, channel, K) tensor
Flatten2(t, s, k) ==
    [i \in Idx2(Batch(s), Channel(s) * k) |-> t[<<i[1], i[2] \div k, i[2] % k>>]]

\* the second top-k returning its entries smallest first
Stage2Options_Ascending(s1, s, k) ==
    LET flat == Flatten2(s1.topk_scores, s, k)
        n == Channel(s) * k
    IN  [b \in 0 .. Batch(s) - 1 |->
            {[m \in 1 .. k |-> o[k + 1 - m]] :
               o \in TopkOrders([j \in 0 .. n - 1 |-> flat[<<b, j>>]], 0 .. n - 1, k)}]

\* lines 143-153: top-k over all classes, class of each, gather of stage 1
Stage2Options(s1, s, k) ==
    LET flat == Flatten2(s1.topk_scores, s, k)
        n == Channel(s) * k
    IN  [b \in 0 .. Batch(s) - 1 |->
            TopkOrders([j \in 0 .. n - 1 |-> flat[<<b, j>>]], 0 .. n - 1, k)]

\* the class taken as the position within the class's group
TopkClses_Remainder(index, k) == index % k

TopkClses(index, k) == index \div k

Stage2Result(s1, s, k, sel) ==
    LET D == Idx2(Batch(s), k)
        index == [i \in D |-> sel[i[1]][i[2] + 1]]
        flat == Flatten2(s1.topk_scores, s, k)
    IN  [topk_score |-> [i \in D |-> flat[<<i[1], index[i]>>]],
         topk_inds |-> gather_feature(Flatten2(s1.topk_inds, s, k), index),
         topk_clses |-> [i \in D |-> TopkClses(index[i], k)],
         topk_ys |-> gather_feature(Flatten2(s1.topk_ys, s, k), index),
         topk_xs |-> gather_feature(Flatten2(s1.topk_xs, s, k), index)]

\* ------------------------------------------------------------- decode
\* the centre without the half-cell offset when reg is None
CentreX_NoHalf(t, s, rg, k) ==
    IF rg # None
    THEN LET g == gather_feature_transform(rg, <<Batch(s), 2, Height(s), Width(s)>>,
                                           t.topk_inds, k)
         IN  [i \in Idx2(Batch(s), k) |-> 2 * t.topk_xs[i] + g[<<i[1], i[2], 0>>]]
    ELSE [i \in Idx2(Batch(s), k) |-> 2 * t.topk_xs[i]]

\* lines 57-64: the centre of each detection, in units of 1/2
CentreX(t, s, rg, k) ==
    IF rg # None
    THEN LET g == gather_feature_transform(rg, <<Batch(s), 2, Height(s), Width(s)>>,
                                           t.topk_inds, k)
         IN  [i \in Idx2(Batch(s), k) |-> 2 * t.topk_xs[i] + g[<<i[1], i[2], 0>>]]
    ELSE [i \in Idx2(Batch(s), k) |-> 2 * t.topk_xs[i] + 1]

CentreY(t, s, rg, k) ==
    IF rg # None
    THEN LET g == gather_feature_transform(rg, <<Batch(s), 2, Height(s), Width(s)>>,
                                           t.topk_inds, k)
         IN  [i \in Idx2(Batch(s), k) |-> 2 * t.topk_ys[i] + g[<<i[1], i[2], 1>>]]
    ELSE [i \in Idx2(Batch(s), k) |-> 2 * t.topk_ys[i] + 1]

WhChannels(s, cat) == IF cat THEN 2 * Channel(s) ELSE 2

\* wh viewed as (batch, K, 2, channel): the channels taken width-major
GatherWh_ChannelMajor(t, s, w, cat, k) ==
    LET g == gather_feature_transform(w, <<Batch(s), WhChannels(s, cat), Height(s), Width(s)>>,
                                      t.topk_inds, k)
    IN  IF cat
        THEN [i \in Idx3(Batch(s), k, 2) |->
                 g[<<i[1], i[2], i[3] * Channel(s) + t.topk_clses[<<i[1], i[2]>>]>>]]
        ELSE g

\* lines 65-73: width and height of each detection
GatherWh(t, s, w, cat, k) ==
    LET g == gather_feature_transform(w, <<Batch(s), WhChannels(s, cat), Height(s), Width(s)>>,
                                      t.topk_inds, k)
    IN  IF cat
        THEN LET v == [i \in Idx2(Batch(s), k) \X (0 .. Channel(s) - 1) \X (0 .. 1) |->
                          g[<<i[1][1], i[1][2], 2 * i[2] + i[3]>>]]
             IN  [i \in Idx3(Batch(s), k, 2) |->
                     v[<<<<i[1], i[2]>>, t.topk_clses[<<i[1], i[2]>>], i[3]>>]]
        ELSE g

\* the boxes with the far corner first
Detections_CornersSwapped(t, s, w, rg, cat, k) ==
    LET xs == CentreX(t, s, rg, k)
        ys == CentreY(t, s, rg, k)
        g == GatherWh(t, s, w, cat, k)
        box(b, n) == <<xs[<<b, n>>] + g[<<b, n, 0>>], ys[<<b, n>>] + g[<<b, n, 1>>],
                       xs[<<b, n>>] - g[<<b, n, 0>>], ys[<<b, n>>] - g[<<b, n, 1>>]>>
    IN  [bboxes |-> [i \in Idx3(Batch(s), k, 4) |-> box(i[1], i[2])[i[3] + 1]],
         scores |-> [i \in Idx3(Batch(s), k, 1) |-> t.topk_score[<<i[1], i[2]>>]],
         clses |-> [i \in Idx3(Batch(s), k, 1) |-> t.topk_clses[<<i[1], i[2]>>]]]

\* lines 75-83: boxes (in units of 1/2), scores and classes
Detections(t, s, w, rg, cat, k) ==
    LET xs == CentreX(t, s, rg, k)
        ys == CentreY(t, s, rg, k)
        g == GatherWh(t, s, w, cat, k)
        box(b, n) == <<xs[<<b, n>>] - g[<<b, n, 0>>], ys[<<b, n>>] - g[<<b, n, 1>>],
                       xs[<<b, n>>] + g[<<b, n, 0>>], ys[<<b, n>>] + g[<<b, n, 1>>]>>
    IN  [bboxes |-> [i \in Idx3(Batch(s), k, 4) |-> box(i[1], i[2])[i[3] + 1]],
         scores |-> [i \in Idx3(Batch(s), k, 1) |-> t.topk_score[<<i[1], i[2]>>]],
         clses |-> [i \in Idx3(Batch(s), k, 1) |-> t.topk_clses[<<i[1], i[2]>>]]]

\* ------------------------------------------------------------- inputs
Shapes ==
    {s \in (1 .. MaxCells) \X (1 .. MaxCells) \X (1 .. MaxCells) \X (1 .. MaxCells) :
        s[1] * s[2] * s[3] * s[4] <= MaxCells}

\* heat-map scores, and scores of either sign
ScoreValues == 0 .. MaxScore
SignedScores == {0 - 1} \cup ScoreValues

Ks(s) == {k \in 1 .. MaxK : k <= Height(s) * Width(s)}

\* a tensor whose value names its own position: any two cells differ
Code(i, s) == ((i[1] * s[2] + i[2]) * s[3] + i[3]) * s[4] + i[4]

\* wh: the position code, and the same lowered by one (a negative width at
\* the first cell)
WhTensors(s, cat) ==
    LET ws == <<Batch(s), WhChannels(s, cat), Height(s), Width(s)>>
    IN  {[i \in Idx4(ws) |-> Code(i, ws) - d] : d \in {0, 1}}

\* reg: absent, or offsets 0, 1/2, 1, ... by position
RegTensors(s) ==
    LET rs == <<Batch(s), 2, Height(s), Width(s)>>
    IN  {None, [i \in Idx4(rs) |-> Code(i, rs)]}

Unset == <<>>

NmsIdle == pool_size = 0 /\ nms1 = Unset /\ nms2 = Unset
DeconvIdle ==
    /\ planes = 0 /\ ksz = 0 /\ weight = Unset
    /\ init_f = 0 /\ init_c = 0 /\ init_i = 0 /\ init_j = 0
AffineIdle == img_info = Unset /\ boxes = Unset /\ net_boxes = Unset /\ target_boxes = Unset

InitDecode ==
    /\ pc = "decode"
    /\ call = "decode"
    /\ shape \in Shapes
    /\ fmap \in [Idx4(shape) -> ScoreValues]
    /\ cat_spec_wh \in BOOLEAN
    /\ wh \in WhTensors(shape, cat_spec_wh)
    /\ reg \in RegTensors(shape)
    /\ K \in Ks(shape)
    /\ scores = Unset
    /\ st1 = Unset
    /\ top = Unset
    /\ det = Unset
    /\ NmsIdle /\ DeconvIdle /\ AffineIdle

InitTopk ==
    /\ pc = "topk_score"
    /\ call = "topk_score"
    /\ shape \in Shapes
    /\ scores \in [Idx4(shape) -> SignedScores]
    /\ K \in Ks(shape)
    /\ fmap = Unset
    /\ wh = Unset
    /\ reg = None
    /\ cat_spec_wh = FALSE
    /\ st1 = Unset
    /\ top = Unset
    /\ det = Unset
    /\ NmsIdle /\ DeconvIdle /\ AffineIdle

\* the map of the documented scenario: shape (1, 3, 8, 8), value 1 at
\* class 1, row 2, column 5, zero elsewhere; reg=None, K=1
ScenarioShape == <<1, 3, 8, 8>>
ScenarioPeak == <<0, 1, 2, 5>>

InitScenario ==
    /\ pc = "decode"
    /\ call = "decode"
    /\ shape = ScenarioShape
    /\ fmap = [i \in Idx4(ScenarioShape) |-> IF i = ScenarioPeak THEN 1 ELSE 0]
    /\ cat_spec_wh = FALSE
    /\ wh \in WhTensors(shape, cat_spec_wh)
    /\ reg = None
    /\ K = 1
    /\ scores = Unset
    /\ st1 = Unset
    /\ top = Unset
    /\ det = Unset
    /\ NmsIdle /\ DeconvIdle /\ AffineIdle

Init == InitDecode \/ InitTopk \/ InitScenario

\* ------------------------------------------------------------- actions
\* decode line 54, and the call of topk_score on line 56
Nms ==
    /\ pc = "decode"
    /\ fmap' = pseudo_nms(fmap, shape, DefaultPoolSize).out
    /\ scores' = fmap'
    /\ pc' = "topk_score"
    /\ UNCHANGED <<call, shape, wh, reg, cat_spec_wh, K, st1, top, det>>
    /\ UNCHANGED <<nmsVars, deconvVars, affineVars>>

\* topk_score lines 135-140
TopkStage1 ==
    /\ pc = "topk_score"
    /\ \E sel \in Choices(Stage1Options(scores, shape, K), Stage1Rows(shape)) :
          st1' = Stage1Result(scores, shape, K, sel)
    /\ pc' = "topk_all"
    /\ UNCHANGED <<call, shape, fmap, wh, reg, cat_spec_wh, K, scores, top, det>>
    /\ UNCHANGED <<nmsVars, deconvVars, affineVars>>

\* topk_score lines 143-153
TopkStage2 ==
    /\ pc = "topk_all"
    /\ \E sel \in Choices(Stage2Options(st1, shape, K), 0 .. Batch(shape) - 1) :
          top' = Stage2Result(st1, shape, K, sel)
    /\ pc' = IF call = "decode" THEN "boxes" ELSE "done"
    /\ UNCHANGED <<call, shape, fmap, wh, reg, cat_spec_wh, K, scores, st1, det>>
    /\ UNCHANGED <<nmsVars, deconvVars, affineVars>>

\* decode lines 57-83
Boxes ==
    /\ pc = "boxes"
    /\ det' = Detections(top, shape, wh, reg, cat_spec_wh, K)
    /\ pc' = "done"
    /\ UNCHANGED <<call, shape, fmap, wh, reg, cat_spec_wh, K, scores, st1, top>>
    /\ UNCHANGED <<nmsVars, deconvVars, affineVars>>

Next == Nms \/ TopkStage1 \/ TopkStage2 \/ Boxes

Spec == Init /\ [][Next]_vars

\* ------------------------------------------------------------- pseudo_nms alone
NmsShapes ==
    {s \in {1} \X (1 .. MaxNmsCells) \X (1 .. MaxNmsCells) \X (1 .. MaxNmsCells) :
        s[2] * s[3] * s[4] <= MaxNmsCells}

InitNms ==
    /\ pc = "pseudo_nms"
    /\ call = "pseudo_nms"
    /\ shape \in NmsShapes
    /\ fmap \in [Idx4(shape) -> SignedScores]
    /\ pool_size \in 1 .. MaxPool
    /\ nms1 = Unset
    /\ nms2 = Unset
    /\ wh = Unset /\ reg = None /\ cat_spec_wh = FALSE /\ K = 0
    /\ scores = Unset /\ st1 = Unset /\ top = Unset /\ det = Unset
    /\ DeconvIdle /\ AffineIdle

\* pseudo_nms(fmap, pool_size)
NmsOnce ==
    /\ pc = "pseudo_nms"
    /\ nms1' = pseudo_nms(fmap, shape, pool_size)
    /\ pc' = IF nms1'.err THEN "raised" ELSE "pseudo_nms_again"
    /\ UNCHANGED <<call, decodeVars, pool_size, nms2, deconvVars, affineVars>>

\* pseudo_nms of the result, with the same pool_size
NmsTwice ==
    /\ pc = "pseudo_nms_again"
    /\ nms2' = pseudo_nms(nms1.out, shape, pool_size)
    /\ pc' = IF nms2'.err THEN "raised" ELSE "done"
    /\ UNCHANGED <<call, decodeVars, pool_size, nms1, deconvVars, affineVars>>

NextNms == NmsOnce \/ NmsTwice

SpecNms == InitNms /\ [][NextNms]_vars

\* ------------------------------------------------------------- DeconvLayer
\* nn.ConvTranspose2d(out_planes, out_planes, deconv_kernel): the weight has
\* shape (in_channels, out_channels, kH, kW) and starts with the module's
\* random initialisation
WeightShape(p, k) == <<p, p, k, k>>

RandomValues == {0 - 1, 0, 1}

RandomWeights(p, k) == {[i \in Idx4(WeightShape(p, k)) |-> r] : r \in RandomValues}

Abs(x) == IF x < 0 THEN 0 - x ELSE x

\* math.ceil(w.size(2) / 2)
CeilHalf(k) == (k + 1) \div 2

\* c = (2f - 1 - f % 2) / (2f), held as its numerator over 2f
CentreNum(fv) == 2 * fv - 1 - (fv % 2)

\* 1 - |i/f - c|, as its numerator over 2f
Tent(n, fv, cn) == 2 * fv - Abs(2 * n - cn)

\* (1 - |i/f - c|) * (1 - |j/f - c|), as its numerator over (2f)^2
Bilinear(a, b, fv, cn) == Tent(a, fv, cn) * Tent(b, fv, cn)

InitDeconv ==
    /\ pc = "deconv_init"
    /\ call = "DeconvLayer"
    /\ planes \in 1 .. MaxPlanes
    /\ ksz \in 1 .. MaxKernel
    /\ weight \in RandomWeights(planes, ksz)
    /\ init_f = 0 /\ init_c = 0 /\ init_i = 0 /\ init_j = 0
    /\ shape = Unset /\ fmap = Unset
    /\ wh = Unset /\ reg = None /\ cat_spec_wh = FALSE /\ K = 0
    /\ scores = Unset /\ st1 = Unset /\ top = Unset /\ det = Unset
    /\ NmsIdle /\ AffineIdle

\* _deconv_init lines 82-84
DeconvInitStart ==
    /\ pc = "deconv_init"
    /\ init_f' = CeilHalf(ksz)
    /\ init_c' = CentreNum(init_f')
    /\ init_i' = 0
    /\ init_j' = 0
    /\ pc' = "fill"
    /\ UNCHANGED <<call, decodeVars, nmsVars, planes, ksz, weight, affineVars>>

\* _deconv_init lines 85-88: one iteration of the inner loop
DeconvFill ==
    /\ pc = "fill"
    /\ weight' = [weight EXCEPT ![<<0, 0, init_i, init_j>>] =
                                   Bilinear(init_i, init_j, init_f, init_c)]
    /\ init_j' = IF init_j + 1 < ksz THEN init_j + 1 ELSE 0
    /\ init_i' = IF init_j + 1 < ksz THEN init_i ELSE init_i + 1
    /\ init_c' = IF init_i' < ksz \/ planes = 1 THEN init_c ELSE 1
    /\ pc' = IF init_i' < ksz THEN "fill" ELSE IF planes > 1 THEN "copy" ELSE "done"
    /\ UNCHANGED <<call, decodeVars, nmsVars, planes, ksz, init_f, affineVars>>

\* _deconv_init lines 89-90: one iteration of the loop over c
DeconvCopy ==
    /\ pc = "copy"
    /\ weight' = [n \in DOMAIN weight |->
                     IF n[1] = init_c /\ n[2] = 0
                     THEN weight[<<0, 0, n[3], n[4]>>] ELSE weight[n]]
    /\ init_c' = IF init_c + 1 < planes THEN init_c + 1 ELSE init_c
    /\ pc' = IF init_c + 1 < planes THEN "copy" ELSE "done"
    /\ UNCHANGED <<call, decodeVars, nmsVars, planes, ksz, init_f, init_i, init_j,
                   affineVars>>

NextDeconv == DeconvInitStart \/ DeconvFill \/ DeconvCopy

SpecDeconv == InitDeconv /\ [][NextDeconv]_vars

\* ------------------------------------------------------------- transform_boxes
\* Points are in units of 1/2.  An affine map is a 3x3 integer matrix m in
\* homogeneous form, a point a triple <<X, Y, D>> standing for (X/D, Y/D).
Dot3(u, v) == u[1] * v[1] + u[2] * v[2] + u[3] * v[3]
Col(m, k) == <<m[1][k], m[2][k], m[3][k]>>
MatVec(m, v) == <<Dot3(m[1], v), Dot3(m[2], v), Dot3(m[3], v)>>
MatMul(a, b) ==
    <<<<Dot3(a[1], Col(b, 1)), Dot3(a[1], Col(b, 2)), Dot3(a[1], Col(b, 3))>>,
      <<Dot3(a[2], Col(b, 1)), Dot3(a[2], Col(b, 2)), Dot3(a[2], Col(b, 3))>>,
      <<Dot3(a[3], Col(b, 1)), Dot3(a[3], Col(b, 2)), Dot3(a[3], Col(b, 3))>>>>

Det3(m) ==
      m[1][1] * (m[2][2] * m[3][3] - m[2][3] * m[3][2])
    - m[1][2] * (m[2][1] * m[3][3] - m[2][3] * m[3][1])
    + m[1][3] * (m[2][1] * m[3][2] - m[2][2] * m[3][1])

\* the adjugate: m * Adj3(m) = Det3(m) * identity
Adj3(m) ==
    <<<<m[2][2] * m[3][3] - m[2][3] * m[3][2],
        m[1][3] * m[3][2] - m[1][2] * m[3][3],
        m[1][2] * m[2][3] - m[1][3] * m[2][2]>>,
      <<m[2][3] * m[3][1] - m[2][1] * m[3][3],
        m[1][1] * m[3][3] - m[1][3] * m[3][1],
        m[1][3] * m[2][1] - m[1][1] * m[2][3]>>,
      <<m[2][1] * m[3][2] - m[2][2] * m[3][1],
        m[1][2] * m[3][1] - m[1][1] * m[3][2],
        m[1][1] * m[2][2] - m[1][2] * m[2][1]>>>>

\* three control points as the columns of a homogeneous matrix
PointsMatrix(p) == <<<<p[1][1], p[2][1], p[3][1]>>, <<p[1][2], p[2][2], p[3][2]>>, <<1, 1, 1>>>>

\* cv2.getAffineTransform(from, to): the affine map that takes from[n] to
\* to[n] for the three control points, to * from^-1, held as the integer
\* matrix to * adj(from) whose common denominator det(from) is its entry
\* [3][3]
getAffineTransform(from, to) == MatMul(PointsMatrix(to), Adj3(PointsMatrix(from)))

\* CenterAffine.generate_src_and_dst(center, size, output_size): the centre,
\* the point half a width above it, and that point moved half a width to
\* the left, for the source window and for the output
generate_src_and_dst(center, size, output_size) ==
    LET src_w == size[1]
        dst_w == output_size[1]
        dst_h == output_size[2]
        s0 == center
        s1 == <<s0[1], s0[2] - src_w>>
        s2 == <<s1[1] - src_w, s1[2]>>
        d0 == <<dst_w, dst_h>>
        d1 == <<d0[1], d0[2] - dst_w>>
        d2 == <<d1[1] - dst_w, d1[2]>>
    IN  [src |-> <<s0, s1, s2>>, dst |-> <<d0, d1, d2>>]

ControlPoints(info) ==
    generate_src_and_dst(info.center, info.size, <<info.width, info.height>>)

\* the preprocessing warp: the affine map src -> dst
ForwardAffine(info) ==
    LET p == ControlPoints(info) IN getAffineTransform(p.src, p.dst)

\* the affine map solved in the direction of the preprocessing warp
BackwardAffine_SrcToDst(info) ==
    LET p == ControlPoints(info) IN getAffineTransform(p.src, p.dst)

\* transform_boxes line 101: the affine map dst -> src
BackwardAffine(info) ==
    LET p == ControlPoints(info) IN getAffineTransform(p.dst, p.src)

\* lines 95, 103-105: every box is two corner points, each multiplied as a
\* homogeneous point by the matrix, and the corners are put back in boxes
ApplyToBoxes(m, bs) ==
    [n \in DOMAIN bs |-> <<MatVec(m, bs[n][1]), MatVec(m, bs[n][2])>>]

transform_boxes(bs, info) == ApplyToBoxes(BackwardAffine(info), bs)

Coords == 0 .. MaxCoord

ImgInfos ==
    [center : Coords \X Coords, size : (1 .. MaxSize) \X (1 .. MaxSize),
     width : 1 .. MaxSize, height : 1 .. MaxSize]

\* n boxes of the original image, each a pair of corners
BoxLists ==
    {[n \in 1 .. len |-> <<<<p[1] + n, p[2], 1>>, <<p[1] + n + 1, p[2] + 2 * n, 1>>>>] :
        len \in 1 .. MaxBoxes, p \in Coords \X Coords}

InitAffine ==
    /\ pc = "preprocess"
    /\ call = "transform_boxes"
    /\ img_info \in ImgInfos
    /\ boxes \in BoxLists
    /\ net_boxes = Unset
    /\ target_boxes = Unset
    /\ shape = Unset /\ fmap = Unset
    /\ wh = Unset /\ reg = None /\ cat_spec_wh = FALSE /\ K = 0
    /\ scores = Unset /\ st1 = Unset /\ top = Unset /\ det = Unset
    /\ NmsIdle /\ DeconvIdle

\* the boxes of the original image are taken into network-output space by
\* the preprocessing warp
Preprocess ==
    /\ pc = "preprocess"
    /\ net_boxes' = ApplyToBoxes(ForwardAffine(img_info), boxes)
    /\ pc' = "transform_boxes"
    /\ UNCHANGED <<call, decodeVars, nmsVars, deconvVars, img_info, boxes, target_boxes>>

\* transform_boxes(net_boxes, img_info)
TransformBoxes ==
    /\ pc = "transform_boxes"
    /\ target_boxes' = transform_boxes(net_boxes, img_info)
    /\ pc' = "done"
    /\ UNCHANGED <<call, decodeVars, nmsVars, deconvVars, img_info, boxes, net_boxes>>

NextAffine == Preprocess \/ TransformBoxes

SpecAffine == InitAffine /\ [][NextAffine]_vars

\* ------------------------------------------------------------- properties
TopkReturned == pc \in {"boxes", "done"}
Decoded == pc = "done" /\ call = "decode"
Dets == Idx2(Batch(shape), K)

\* C1: decode returns boxes of shape [batch, K, 4], scores and classes of
\* shape [batch, K, 1], exactly K detections per batch element, and every
\* box has x1 <= x2 and y1 <= y2 whenever no value of wh is negative.
C1_DecodeShapeAndOrder ==
    Decoded =>
        /\ DOMAIN det.bboxes = Idx3(Batch(shape), K, 4)
        /\ DOMAIN det.scores = Idx3(Batch(shape), K, 1)
        /\ DOMAIN det.clses = Idx3(Batch(shape), K, 1)
        /\ (\A i \in DOMAIN wh : wh[i] >= 0) =>
              \A d \in Dets :
                 /\ det.bboxes[<<d[1], d[2], 0>>] <= det.bboxes[<<d[1], d[2], 2>>]
                 /\ det.bboxes[<<d[1], d[2], 1>>] <= det.bboxes[<<d[1], d[2], 3>>]

C1_Witness ==
    /\ Decoded
    /\ K = 2
    /\ Batch(shape) = 2
    /\ \A i \in DOMAIN wh : wh[i] >= 0
    /\ \E d \in Dets : det.bboxes[<<d[1], d[2], 0>>] < det.bboxes[<<d[1], d[2], 2>>]

\* C3: the K scores topk_score returns for a batch element are in
\* non-increasing order.
C3_ScoresNonIncreasing ==
    TopkReturned =>
        \A b \in 0 .. Batch(shape) - 1 : \A i \in 0 .. K - 2 :
            top.topk_score[<<b, i>>] >= top.topk_score[<<b, i + 1>>]

C3_Witness ==
    /\ TopkReturned
    /\ K = 2
    /\ Channel(shape) = 2
    /\ top.topk_score[<<0, 0>>] > top.topk_score[<<0, 1>>]
    /\ top.topk_clses[<<0, 0>>] = 1

\* C4: for every returned point, row * width + column is its flat index,
\* and row, column and flat index lie inside the map.
C4_RowColFlatIndex ==
    TopkReturned =>
        \A d \in Dets :
            /\ top.topk_ys[d] * Width(shape) + top.topk_xs[d] = top.topk_inds[d]
            /\ top.topk_ys[d] \in 0 .. Height(shape) - 1
            /\ top.topk_xs[d] \in 0 .. Width(shape) - 1
            /\ top.topk_inds[d] \in 0 .. Height(shape) * Width(shape) - 1

C4_Witness ==
    /\ TopkReturned
    /\ Height(shape) = 2
    /\ Width(shape) = 2
    /\ \E d \in Dets : top.topk_ys[d] = 1 /\ top.topk_xs[d] = 0 /\ top.topk_inds[d] = 2

\* the width and height decode is to use for detection d: those of the
\* detection's own class at its cell with cat_spec_wh, the two channels of
\* wh at its cell without
WhAt(d, k) ==
    wh[<<d[1],
         IF cat_spec_wh THEN 2 * det.clses[<<d[1], d[2], 0>>] + k ELSE k,
         top.topk_ys[d], top.topk_xs[d]>>]

\* the centre offset of detection d in units of 1/2: reg at its cell, or
\* (0.5, 0.5)
OffsetAt(d, k) ==
    IF reg = None THEN 1 ELSE reg[<<d[1], k, top.topk_ys[d], top.topk_xs[d]>>]

IsScenario == shape = ScenarioShape /\ fmap[ScenarioPeak] = 1 /\ K = 1 /\ reg = None

\* C5: each box is (cx - w/2, cy - h/2, cx + w/2, cy + h/2) around the
\* centre (col + ox, row + oy) of its cell, (ox, oy) being reg at that
\* cell or (0.5, 0.5) without reg; the scenario map yields class 1,
\* score 1 and centre (5.5, 2.5).
C5_BoxAroundCentre ==
    Decoded =>
        /\ \A d \in Dets :
              LET cx == 2 * top.topk_xs[d] + OffsetAt(d, 0)
                  cy == 2 * top.topk_ys[d] + OffsetAt(d, 1)
              IN  /\ det.bboxes[<<d[1], d[2], 0>>] = cx - WhAt(d, 0)
                  /\ det.bboxes[<<d[1], d[2], 1>>] = cy - WhAt(d, 1)
                  /\ det.bboxes[<<d[1], d[2], 2>>] = cx + WhAt(d, 0)
                  /\ det.bboxes[<<d[1], d[2], 3>>] = cy + WhAt(d, 1)
        /\ IsScenario =>
              /\ Dets = {<<0, 0>>}
              /\ det.clses[<<0, 0, 0>>] = 1
              /\ det.scores[<<0, 0, 0>>] = 1
              /\ det.bboxes[<<0, 0, 0>>] + det.bboxes[<<0, 0, 2>>] = 2 * 11
              /\ det.bboxes[<<0, 0, 1>>] + det.bboxes[<<0, 0, 3>>] = 2 * 5

C5_Witness == Decoded /\ IsScenario /\ det.clses[<<0, 0, 0>>] = 1

\* the cells of batch element b
CellsOf(b) == {i \in Idx4(shape) : i[1] = b}

\* C9: the returned scores are the K largest values of the batch element
\* (as a multiset), the returned (class, row, col) are pairwise distinct,
\* and each names a cell that holds the returned score.
C9_GlobalTopK ==
    TopkReturned =>
        \A b \in 0 .. Batch(shape) - 1 :
            LET ranks == 0 .. K - 1
                cell(i) == <<b, top.topk_clses[<<b, i>>], top.topk_ys[<<b, i>>],
                             top.topk_xs[<<b, i>>]>>
                more(v) == Cardinality({c \in CellsOf(b) : scores[c] > v})
            IN  /\ \A i \in ranks : cell(i) \in CellsOf(b)
                                       /\ scores[cell(i)] = top.topk_score[<<b, i>>]
                /\ \A i, j \in ranks : i # j => cell(i) # cell(j)
                /\ \A v \in SignedScores :
                      Cardinality({i \in ranks : top.topk_score[<<b, i>>] > v})
                        = IF more(v) < K THEN more(v) ELSE K

C9_Witness ==
    /\ TopkReturned
    /\ K = 2
    /\ Channel(shape) = 2
    /\ top.topk_clses[<<0, 0>>] = 1
    /\ top.topk_clses[<<0, 1>>] = 1
    /\ top.topk_score[<<0, 1>>] > 0

\* C10: with cat_spec_wh the width and height of a detection are
\* wh[b, 2*cls, row, col] and wh[b, 2*cls+1, row, col] of its own class
\* and cell; without, the two channels of wh at its cell.
C10_ClassSpecificWh ==
    Decoded =>
        \A d \in Dets :
            /\ det.bboxes[<<d[1], d[2], 2>>] - det.bboxes[<<d[1], d[2], 0>>]
                 = 2 * wh[<<d[1],
                           IF cat_spec_wh THEN 2 * top.topk_clses[d] ELSE 0,
                           top.topk_ys[d], top.topk_xs[d]>>]
            /\ det.bboxes[<<d[1], d[2], 3>>] - det.bboxes[<<d[1], d[2], 1>>]
                 = 2 * wh[<<d[1],
                           IF cat_spec_wh THEN 2 * top.topk_clses[d] + 1 ELSE 1,
                           top.topk_ys[d], top.topk_xs[d]>>]

C10_Witness ==
    /\ Decoded
    /\ cat_spec_wh
    /\ Channel(shape) = 2
    /\ K = 2
    /\ top.topk_clses[<<0, 0>>] = 1
    /\ top.topk_clses[<<0, 1>>] = 0

\* ------------------------------------------------------------- pseudo_nms
NmsReturned == call = "pseudo_nms" /\ pc \in {"pseudo_nms_again", "done"}
NmsCalled == call = "pseudo_nms" /\ pc # "pseudo_nms"

\* the pool_size x pool_size neighbourhood of cell n, clipped at the border:
\* the cells of its channel within (pool_size - 1) / 2 of it in both
\* directions
Neighbourhood(n, pool) ==
    {m \in Idx4(shape) :
        /\ m[1] = n[1] /\ m[2] = n[2]
        /\ 2 * Abs(m[3] - n[3]) <= pool - 1
        /\ 2 * Abs(m[4] - n[4]) <= pool - 1}

LocalMaxMap(t, pool) ==
    [n \in Idx4(shape) |->
        IF \A m \in Neighbourhood(n, pool) : t[m] <= t[n] THEN t[n] ELSE 0]

\* C2 as stated: pseudo_nms is idempotent for every real-valued map, of
\* any sign.
C2_IdempotentAnySign ==
    (call = "pseudo_nms" /\ pc = "done" /\ pool_size = DefaultPoolSize)
        => nms2.out = nms1.out

\* C2 amended: pseudo_nms is idempotent on every map that holds no negative
\* value.
C2_IdempotentNonNegative ==
    (call = "pseudo_nms" /\ pc = "done" /\ pool_size = DefaultPoolSize
       /\ \A n \in Idx4(shape) : fmap[n] >= 0)
        => nms2.out = nms1.out

C2_Witness ==
    /\ call = "pseudo_nms" /\ pc = "done" /\ pool_size = DefaultPoolSize
    /\ \A n \in Idx4(shape) : fmap[n] >= 0
    /\ nms1.out # fmap
    /\ \E n \in Idx4(shape) : nms1.out[n] > 0
    /\ nms2.out = nms1.out

\* C8 as stated: for every pool_size >= 1 pseudo_nms returns a map of the
\* shape of fmap in which a cell keeps its value iff it equals the maximum
\* of its neighbourhood, and is 0 otherwise.
C8_LocalMaximaAnyPool ==
    NmsCalled =>
        /\ ~nms1.err
        /\ nms1.out = LocalMaxMap(fmap, pool_size)

\* C8 amended: the same for every odd pool_size >= 1.
C8_LocalMaximaOddPool ==
    (NmsCalled /\ pool_size % 2 = 1) =>
        /\ ~nms1.err
        /\ DOMAIN nms1.out = Idx4(shape)
        /\ nms1.out = LocalMaxMap(fmap, pool_size)

\* two tied maxima of one neighbourhood both survive, a smaller neighbour
\* is zeroed
C8_Witness ==
    /\ NmsReturned
    /\ pool_size = 3
    /\ shape = <<1, 1, 1, 4>>
    /\ fmap = [n \in Idx4(shape) |-> <<2, 2, 1, 0 - 1>>[n[4] + 1]]
    /\ nms1.out = [n \in Idx4(shape) |-> <<2, 2, 0, 0>>[n[4] + 1]]

\* ------------------------------------------------------------- DeconvLayer
DeconvDone == call = "DeconvLayer" /\ pc = "done"

\* C6: after construction weight[0,0,i,j] = (1-|i/f-c|)*(1-|j/f-c|) with
\* f = ceil(ksz/2) and c = (2f-1-f%2)/(2f), and the kernel of every other
\* input/output channel pair is a copy of weight[0,0,:,:].
C6_BilinearEveryChannel ==
    DeconvDone =>
        LET fv == CeilHalf(ksz)
            cn == 2 * fv - 1 - (fv % 2)
        IN  \A n \in Idx4(WeightShape(planes, ksz)) :
               /\ weight[<<0, 0, n[3], n[4]>>]
                    = (2 * fv - Abs(2 * n[3] - cn)) * (2 * fv - Abs(2 * n[4] - cn))
               /\ weight[n] = weight[<<0, 0, n[3], n[4]>>]

\* ------------------------------------------------------------- transform_boxes
Transformed == call = "transform_boxes" /\ pc = "done"

\* the point <<X, Y, D>> is the point q of the original image
SamePoint(h, q) == h[3] # 0 /\ h[1] * q[3] = q[1] * h[3] /\ h[2] * q[3] = q[2] * h[3]

\* C7: transform_boxes after the preprocessing warp gives back both corners
\* of every box of the original image, and as many boxes as it was given.
C7_RoundTrip ==
    Transformed =>
        /\ DOMAIN target_boxes = DOMAIN boxes
        /\ \A n \in DOMAIN boxes :
              /\ SamePoint(target_boxes[n][1], boxes[n][1])
              /\ SamePoint(target_boxes[n][2], boxes[n][2])

\* a warp that is not the identity: the box moves in network-output space
C7_Witness ==
    /\ Transformed
    /\ Len(boxes) = 2
    /\ img_info.size[1] # img_info.width
    /\ ~SamePoint(net_boxes[1][1], boxes[1][1])
    /\ SamePoint(target_boxes[2][2], boxes[2][2])

====
